---------------------------- MODULE Spec2Model ----------------------------
(***************************************************************************)
(* Model of mapreduce/base_handler.py: the request handlers of the         *)
(* mapreduce library (TaskQueueHandler, JsonHandler, HugeTaskHandler).      *)
(*                                                                         *)
(* Every handler instance serves one request.  The state of an instance is *)
(* its request, its response, its json_response dictionary and the request *)
(* wrapper a HugeTaskHandler installs.  The entry points (post, get) are   *)
(* one action each up to the call of handle(); handle() is supplied by a   *)
(* subclass and is modelled by the calls it may make on the handler, one   *)
(* action per call; its return or raise completes the entry point.         *)
(*                                                                         *)
(* Python strings whose contents matter are sequences of tokens (<<>> is   *)
(* the empty string); dictionaries are functions on a finite set of keys.  *)
(***************************************************************************)
EXTENDS Integers, Sequences, FiniteSets, TLC

VARIABLES
  kind,           \* class of each handler instance
  request,        \* the raw webapp request: headers, path, params
  response,       \* the webapp response: status, body written, headers
  json_response,  \* JsonHandler.json_response
  wrapper,        \* HugeTaskHandler: the _RequestWrapper put in self.request
  pc,             \* where the entry point of each instance stands
  exc,            \* the exception that left the entry point, if any
  thrown,         \* the exception handle() raised, if any
  last,           \* the last call handle() made and what it returned
  reads,          \* the get() calls since the last set(), with their results
  calls,          \* how often _setup, handle, decode_payload, ... were called
  log,            \* entries written with the logging module
  steps           \* number of calls handle() has made

vars == <<kind, request, response, json_response, wrapper, pc, exc, thrown,
          last, reads, calls, log, steps>>

(***************************************************************************)
(* Bounds of the model.                                                    *)
(***************************************************************************)
\* Most calls one handle() makes.
MaxOps == 3
\* Largest retry count the task queue puts in X-AppEngine-TaskExecutionCount.
MaxCount == 11

(***************************************************************************)
(* Dictionaries.                                                           *)
(***************************************************************************)
EmptyDict == [k \in {} |-> <<>>]

\* dict.get(name, default) and webapp's request.get(name, default).
DictGet(d, name, default) == IF name \in DOMAIN d THEN d[name] ELSE default

\* d[name] = value
DictPut(d, name, value) == (name :> value) @@ d

(***************************************************************************)
(* Decimal strings and Python's int().                                     *)
(***************************************************************************)
Digits == <<"0", "1", "2", "3", "4", "5", "6", "7", "8", "9">>

DigitChars == {Digits[i] : i \in 1..10}

DigitValue(c) == CHOOSE v \in 0..9 : Digits[v + 1] = c

\* str(n) for n >= 0: the decimal digits of n, most significant first.
RECURSIVE Dec(_)
Dec(n) == IF n < 10 THEN <<Digits[n + 1]>>
          ELSE Dec(n \div 10) \o <<Digits[(n % 10) + 1]>>

\* The value of a non-empty sequence of digits.
RECURSIVE DigitsValue(_)
DigitsValue(s) == IF Len(s) = 0 THEN 0
                  ELSE 10 * DigitsValue(SubSeq(s, 1, Len(s) - 1))
                       + DigitValue(s[Len(s)])

\* str.strip(): leading and trailing blanks removed.
RECURSIVE Strip(_)
Strip(s) == IF Len(s) > 0 /\ s[1] = " " THEN Strip(Tail(s))
            ELSE IF Len(s) > 0 /\ s[Len(s)] = " "
                 THEN Strip(SubSeq(s, 1, Len(s) - 1))
                 ELSE s

AllDigits(s) == Len(s) > 0 /\ \A i \in 1..Len(s) : s[i] \in DigitChars

\* int(s) of a string: blanks stripped, an optional sign, then digits only;
\* anything else raises ValueError (ok = FALSE).
ParseInt(s) ==
  LET t == Strip(s)
      signed == Len(t) > 0 /\ t[1] \in {"-", "+"}
      d == IF signed THEN Tail(t) ELSE t
  IN  IF AllDigits(d)
      THEN [ok |-> TRUE,
            val |-> IF signed /\ t[1] = "-" THEN 0 - DigitsValue(d)
                    ELSE DigitsValue(d)]
      ELSE [ok |-> FALSE, val |-> 0]

(***************************************************************************)
(* Requests and responses of the webapp framework.                         *)
(***************************************************************************)
QueueNameHeader == "X-AppEngine-QueueName"

ExecutionCountHeader == "X-AppEngine-TaskExecutionCount"

RequestedWithHeader == "X-Requested-With"

\* util.HugeTask.PAYLOAD_PARAM and util.HugeTask.PAYLOAD_KEY_PARAM.
PAYLOAD_PARAM == "payload"

PAYLOAD_KEY_PARAM == "payload_key"

\* webapp's Response starts with status 200, an empty body, no content type.
NewResponse == [status |-> 200, body |-> <<>>, content_type |-> ""]

\* response.set_status(code, message): the body is left alone.
SetStatusOf(resp, code) == [resp EXCEPT !.status = code]

\* response.out.write(text)
WriteOf(resp, text) == [resp EXCEPT !.body = Append(@, text)]

\* response.clear(): the body written so far is dropped; status and headers
\* stay.
ClearOf(resp) == [resp EXCEPT !.body = <<>>]

\* webapp's request.get(name, default_value="").
RawGet(req, name, default) == DictGet(req.params, name, default)

\* request.set(name, value) of the raw request.
RawSet(req, name, value) ==
  [req EXCEPT !.params = DictPut(@, name, value)]

(***************************************************************************)
(* Exceptions.  isa holds the classes among MissingYamlError and Exception *)
(* that the exception's class derives from; str is str(e).                 *)
(***************************************************************************)
NoException == [cls |-> "", isa |-> {}, str |-> ""]

Raised(cls, isa, str) == [cls |-> cls, isa |-> isa, str |-> str]

\* A byte string that is not UTF-8: simplejson cannot encode it.
BadBytes == "\\xff"

\* A value no encoder knows, such as object().
Opaque == "<object>"

MissingYamlError ==
  Raised("MissingYamlError", {"MissingYamlError", "Exception"}, "no yaml")

NotImplemented == Raised("NotImplementedError", {"Exception"}, "")

ValueError == Raised("ValueError", {"Exception"}, "invalid literal")

\* An exception whose message is a byte string that is not UTF-8.
BadBytesError == Raised("IOError", {"Exception"}, BadBytes)

\* google.appengine.runtime.DeadlineExceededError derives from BaseException
\* only, as KeyboardInterrupt and SystemExit do.
DeadlineExceededError == Raised("DeadlineExceededError", {}, "deadline")

\* What util.HugeTask.decode_payload raises.
DecodeError == Raised("DecodeError", {"Exception"}, "bad payload")

\* class BadRequestPathError(Error), with the message base_path() gives it.
BadRequestPathError ==
  Raised("BadRequestPathError", {"Error", "Exception"},
         "Json handlers should have /command path prefix")

\* What a subclass's handle() may raise.
HandleExceptions ==
  {MissingYamlError, NotImplemented, ValueError, BadBytesError,
   DeadlineExceededError}

(***************************************************************************)
(* simplejson.dumps(json_response, cls=model.JsonEncoder).                 *)
(***************************************************************************)
Serializable(v) == v \notin {Opaque, BadBytes}

\* The keys of a dictionary in the order they are written.
KeyOrder == <<"error_class", "error_message", "name", "result">>

RECURSIVE DumpItems(_, _, _)
DumpItems(d, i, first) ==
  IF i > Len(KeyOrder) THEN <<>>
  ELSE IF KeyOrder[i] \in DOMAIN d
       THEN (IF first THEN <<>> ELSE <<",">>)
            \o <<KeyOrder[i], ":", d[KeyOrder[i]]>>
            \o DumpItems(d, i + 1, FALSE)
       ELSE DumpItems(d, i + 1, first)

\* The JSON text of d as a sequence of tokens; ok is FALSE when dumps raises.
Dumps(d) ==
  IF \A k \in DOMAIN d : Serializable(d[k])
  THEN [ok |-> TRUE, out |-> <<"{">> \o DumpItems(d, 1, TRUE) \o <<"}">>]
  ELSE [ok |-> FALSE, out |-> <<>>]

\* The keys of the object a JSON text holds.
JsonKeysOf(text) ==
  {text[i] : i \in {j \in 1..(Len(text) - 1) : text[j + 1] = ":"}}

\* The value the JSON text gives key k.
JsonValueOf(text, k) ==
  LET i == CHOOSE j \in 1..(Len(text) - 2) : text[j] = k /\ text[j + 1] = ":"
  IN  text[i + 2]

(***************************************************************************)
(* util.HugeTask.decode_payload and the auxiliary store it reads.  A       *)
(* serialized parameter mapping is the token "z" followed by name = value  *)
(* items separated by "&".                                                  *)
(***************************************************************************)
\* The names of parameters, in the order serialization writes them.
ParamOrder == <<"a", "b", "c", "d", "payload", "payload_key">>

RECURSIVE SerializeItems(_, _, _)
SerializeItems(m, i, first) ==
  IF i > Len(ParamOrder) THEN <<>>
  ELSE IF ParamOrder[i] \in DOMAIN m
       THEN (IF first THEN <<>> ELSE <<"&">>)
            \o <<ParamOrder[i], "=", m[ParamOrder[i]][1]>>
            \o SerializeItems(m, i + 1, FALSE)
       ELSE SerializeItems(m, i + 1, first)

\* Serialization of a parameter mapping into a blob.
Serialize(m) == <<"z">> \o SerializeItems(m, 1, TRUE)

\* The size of a blob above which the producer stores it instead of
\* sending it inline.
MAX_INLINE_PAYLOAD == 4

\* The mappings the producer has stored, by the key it gave each.
Stored ==
  ("k1" :> (("b" :> <<"2">>) @@ ("c" :> <<"3">>)))
  @@ ("k2" :> (("a" :> <<"1">>) @@ ("payload" :> <<"p">>)))

\* The blobs the auxiliary store holds, by key.
Datastore == [k \in DOMAIN Stored |-> Serialize(Stored[k])]

\* The mappings a producer encodes: small ones and the stored ones.
Mappings ==
  {EmptyDict, ("a" :> <<"1">>), ("d" :> <<"4">>)}
  \cup {Stored[k] : k \in DOMAIN Stored}

\* The parameters of the request that carries mapping m: the inline payload
\* when its blob is within the ceiling, the key of the stored blob otherwise.
EncodePayload(m) ==
  IF Len(Serialize(m)) <= MAX_INLINE_PAYLOAD
  THEN (PAYLOAD_PARAM :> Serialize(m))
  ELSE (PAYLOAD_KEY_PARAM :> <<CHOOSE k \in DOMAIN Stored : Stored[k] = m>>)

\* The items after the leading "z": ok is FALSE when they are malformed.
RECURSIVE ParseItems(_)
ParseItems(toks) ==
  IF Len(toks) = 0 THEN [ok |-> TRUE, params |-> EmptyDict]
  ELSE IF Len(toks) < 3 \/ toks[2] # "=" \/ toks[1] \in {"=", "&"}
       THEN [ok |-> FALSE, params |-> EmptyDict]
       ELSE IF Len(toks) = 3
            THEN [ok |-> TRUE, params |-> (toks[1] :> <<toks[3]>>)]
            ELSE IF toks[4] # "&" \/ Len(toks) = 4
                 THEN [ok |-> FALSE, params |-> EmptyDict]
                 ELSE LET rest == ParseItems(SubSeq(toks, 5, Len(toks)))
                      IN  [ok |-> rest.ok,
                           params |-> IF rest.ok
                                      THEN rest.params @@ (toks[1] :> <<toks[3]>>)
                                      ELSE EmptyDict]

\* Deserialization of a blob into a parameter mapping.
Deserialize(blob) ==
  IF Len(blob) = 0 \/ blob[1] # "z"
  THEN [ok |-> FALSE, params |-> EmptyDict]
  ELSE ParseItems(Tail(blob))

\* decode_payload({payload, payload_key}): the inline payload when there is
\* one, the blob stored under payload_key otherwise.  ok is FALSE when it
\* raises; reads is the number of reads of the auxiliary store.
DecodePayload(payload, payload_key) ==
  IF payload # <<>>
  THEN [ok |-> Deserialize(payload).ok,
        params |-> Deserialize(payload).params, reads |-> 0]
  ELSE IF Len(payload_key) = 1 /\ payload_key[1] \in DOMAIN Datastore
       THEN [ok |-> Deserialize(Datastore[payload_key[1]]).ok,
             params |-> Deserialize(Datastore[payload_key[1]]).params,
             reads |-> 1]
       ELSE [ok |-> FALSE, params |-> EmptyDict, reads |-> 1]

\* The mapping's get(name, default) and set(name, value).
ParamsGet(params, name, default) == DictGet(params, name, default)

ParamsSet(params, name, value) == DictPut(params, name, value)

(***************************************************************************)
(* HugeTaskHandler._RequestWrapper.                                        *)
(***************************************************************************)
\* self.request of a handler whose _setup has not wrapped it.
NoWrapper ==
  [wrapped |-> FALSE, encoded |-> FALSE, params |-> EmptyDict,
   path |-> <<>>, headers |-> EmptyDict]

\* not request.get(payload) and not request.get(payload_key)
NoEnvelope(req) ==
  /\ RawGet(req, PAYLOAD_PARAM, <<>>) = <<>>
  /\ RawGet(req, PAYLOAD_KEY_PARAM, <<>>) = <<>>

\* An __init__ that answers a failed decode with an empty mapping.
RequestWrapperInitSwallow(req) ==
  IF NoEnvelope(req)
  THEN [ok |-> TRUE, decodes |-> 0, reads |-> 0,
        self |-> [wrapped |-> TRUE, encoded |-> FALSE, params |-> EmptyDict,
                  path |-> req.path, headers |-> req.headers]]
  ELSE LET dec == DecodePayload(RawGet(req, PAYLOAD_PARAM, <<>>),
                                RawGet(req, PAYLOAD_KEY_PARAM, <<>>))
       IN  [ok |-> TRUE, decodes |-> 1, reads |-> dec.reads,
            self |-> [wrapped |-> TRUE, encoded |-> TRUE,
                      params |-> dec.params,
                      path |-> req.path, headers |-> req.headers]]

\* An __init__ that looks at the inline payload only.
RequestWrapperInitPayloadOnly(req) ==
  IF RawGet(req, PAYLOAD_PARAM, <<>>) = <<>>
  THEN [ok |-> TRUE, decodes |-> 0, reads |-> 0,
        self |-> [wrapped |-> TRUE, encoded |-> FALSE, params |-> EmptyDict,
                  path |-> req.path, headers |-> req.headers]]
  ELSE LET dec == DecodePayload(RawGet(req, PAYLOAD_PARAM, <<>>), <<>>)
       IN  [ok |-> dec.ok, decodes |-> 1, reads |-> dec.reads,
            self |-> [wrapped |-> dec.ok, encoded |-> TRUE,
                      params |-> dec.params,
                      path |-> req.path, headers |-> req.headers]]

\* An __init__ that does not copy the headers.
RequestWrapperInitNoHeaders(req) ==
  IF NoEnvelope(req)
  THEN [ok |-> TRUE, decodes |-> 0, reads |-> 0,
        self |-> [wrapped |-> TRUE, encoded |-> FALSE, params |-> EmptyDict,
                  path |-> req.path, headers |-> EmptyDict]]
  ELSE LET dec == DecodePayload(RawGet(req, PAYLOAD_PARAM, <<>>),
                                RawGet(req, PAYLOAD_KEY_PARAM, <<>>))
       IN  [ok |-> dec.ok, decodes |-> 1, reads |-> dec.reads,
            self |-> [wrapped |-> dec.ok, encoded |-> TRUE,
                      params |-> dec.params,
                      path |-> req.path, headers |-> EmptyDict]]

\* _RequestWrapper.__init__(request): ok is FALSE when decode_payload raises;
\* decodes and reads count the calls of decode_payload and the store reads.
RequestWrapperInit(req) ==
  IF NoEnvelope(req)
  THEN [ok |-> TRUE, decodes |-> 0, reads |-> 0,
        self |-> [wrapped |-> TRUE, encoded |-> FALSE, params |-> EmptyDict,
                  path |-> req.path, headers |-> req.headers]]
  ELSE LET dec == DecodePayload(RawGet(req, PAYLOAD_PARAM, <<>>),
                                RawGet(req, PAYLOAD_KEY_PARAM, <<>>))
       IN  [ok |-> dec.ok, decodes |-> 1, reads |-> dec.reads,
            self |-> [wrapped |-> dec.ok, encoded |-> TRUE,
                      params |-> dec.params,
                      path |-> req.path, headers |-> req.headers]]

\* A passthrough get that does not hand the default on.
WrapperGetNoDefault(w, req, name, default) ==
  IF w.encoded THEN ParamsGet(w.params, name, default)
  ELSE RawGet(req, name, <<>>)

\* _RequestWrapper.get(name, default)
WrapperGet(w, req, name, default) ==
  IF w.encoded THEN ParamsGet(w.params, name, default)
  ELSE RawGet(req, name, default)

\* A set that always writes to the raw request.
WrapperSetRaw(w, req, name, value) ==
  [self |-> w, raw |-> RawSet(req, name, value)]

\* _RequestWrapper.set(name, value): the wrapper and the raw request after it.
WrapperSet(w, req, name, value) ==
  IF w.encoded
  THEN [self |-> [w EXCEPT !.params = ParamsSet(@, name, value)], raw |-> req]
  ELSE [self |-> w, raw |-> RawSet(req, name, value)]

(***************************************************************************)
(* The requests the handlers are given.                                    *)
(***************************************************************************)
(***************************************************************************)
(* base_path().  A path is the sequence of its "/" and its segments:       *)
(* "/mapreduce/command/list_jobs" is                                       *)
(* <<"/", "mapreduce", "/", "command", "/", "list_jobs">>.                 *)
(***************************************************************************)
\* s.rfind(t): the highest index (from 0) where t is, -1 when there is none.
RFind(s, t) ==
  IF \E i \in 1..Len(s) : s[i] = t
  THEN (CHOOSE i \in 1..Len(s) :
          s[i] = t /\ \A j \in (i + 1)..Len(s) : s[j] # t) - 1
  ELSE -1

\* s[:k]
SliceTo(s, k) ==
  IF k >= 0 THEN SubSeq(s, 1, IF k < Len(s) THEN k ELSE Len(s))
  ELSE SubSeq(s, 1, IF Len(s) + k > 0 THEN Len(s) + k ELSE 0)

\* s.endswith(suffix)
EndsWith(s, suffix) ==
  /\ Len(suffix) <= Len(s)
  /\ SubSeq(s, Len(s) - Len(suffix) + 1, Len(s)) = suffix

\* self.request.path: the wrapper's once _setup has wrapped the request.
RequestPath(w, req) == IF w.wrapped THEN w.path ELSE req.path

\* BaseHandler.base_path(): path[:path.rfind("/")]
BasePathOf(path) == SliceTo(path, RFind(path, "/"))

\* A base_path() that trims two segments without looking at them.
JsonBasePathNoCheck(path) ==
  LET base_path == SliceTo(path, RFind(path, "/"))
  IN  [ok |-> TRUE, val |-> SliceTo(base_path, RFind(base_path, "/"))]

\* JsonHandler.base_path(): ok is FALSE when it raises BadRequestPathError.
JsonBasePathOf(path) ==
  LET base_path == SliceTo(path, RFind(path, "/"))
  IN  IF ~EndsWith(base_path, <<"/", "command">>)
      THEN [ok |-> FALSE, val |-> <<>>]
      ELSE [ok |-> TRUE, val |-> SliceTo(base_path, RFind(base_path, "/"))]

\* The instances of handler classes: webapp makes one per request.
Instances == {1}

TaskKinds == {"TaskQueueHandler", "HugeTaskHandler"}

JsonKinds == {"GetJsonHandler", "PostJsonHandler"}

\* A header that may be absent.
Opt(name, values) == {EmptyDict} \cup {name :> v : v \in values}

\* Values of the retry count header that are not the decimal string of a count.
OddCounts == {<<"x">>, <<>>, <<"1", "x">>, <<" ", "7">>, <<"-", "1">>}

CountValues == {Dec(n) : n \in 0..MaxCount} \cup OddCounts

Request(headers, path, params) ==
  [headers |-> headers, path |-> path, params |-> params]

TaskRequests ==
  {Request(q @@ c, <<"/", "mapreduce", "/", "worker_callback">>, EmptyDict) :
     q \in Opt(QueueNameHeader, {<<"default">>}),
     c \in Opt(ExecutionCountHeader, CountValues)}

\* Parameters of the requests a HugeTaskHandler gets: flat ones, an inline
\* payload, a payload key (stored or not), a payload that is corrupt, and
\* what a producer sends for each of Mappings.
HugeParams ==
  {EncodePayload(m) : m \in Mappings} \cup
  { ("a" :> <<"raw_a">>),
    ("a" :> <<"raw_a">>) @@ (PAYLOAD_PARAM :> <<>>) @@ (PAYLOAD_KEY_PARAM :> <<>>),
    (PAYLOAD_PARAM :> <<"z", "a", "=", "1">>) @@ ("b" :> <<"raw_b">>),
    (PAYLOAD_PARAM :> <<"z">>) @@ ("a" :> <<"raw_a">>),
    (PAYLOAD_KEY_PARAM :> <<"k1">>) @@ ("a" :> <<"raw_a">>),
    (PAYLOAD_KEY_PARAM :> <<"k9">>),
    (PAYLOAD_PARAM :> <<"z", "a", "=">>) }

HugeRequests ==
  {Request(q @@ c, <<"/", "mapreduce", "/", "worker_callback">>, p) :
     q \in Opt(QueueNameHeader, {<<"default">>}),
     c \in Opt(ExecutionCountHeader, {Dec(2)}),
     p \in HugeParams}

\* Paths of requests to a JsonHandler: under /command, not under it, with
\* nothing before /command, and with an empty last segment.
JsonPaths ==
  { <<"/", "mapreduce", "/", "command", "/", "list_jobs">>,
    <<"/", "mapreduce", "/", "list_jobs">>,
    <<"/", "command", "/", "list_jobs">>,
    <<"/", "mapreduce", "/", "command", "/">> }

JsonRequests ==
  {Request(x, p, EmptyDict) :
     x \in Opt(RequestedWithHeader, {<<"XMLHttpRequest">>, <<"fetch">>}),
     p \in JsonPaths}

Inputs ==
  {[kind |-> "TaskQueueHandler", request |-> q] : q \in TaskRequests}
  \cup {[kind |-> "HugeTaskHandler", request |-> q] : q \in HugeRequests}
  \cup {[kind |-> k, request |-> q] : k \in JsonKinds, q \in JsonRequests}

\* What handle() passes to the calls it makes.
Texts == {<<"partial">>, <<"done">>}

StatusCodes == {204, 500}

ParamNames == {"a", "b", PAYLOAD_PARAM}

Defaults == {<<>>, <<"dflt">>}

SetNames == {"a", "d"}

SetValues == {<<"new">>}

JsonPutKeys == {"result", "name"}

JsonPutValues == {"ok", Opaque}

\* A call of handle(): the method, its name and value arguments, the string
\* or the integer it returned, and whether it returned (ok) or raised.
NoCall ==
  [op |-> "", name |-> "", arg |-> <<>>, str |-> <<>>, int |-> 0, ok |-> TRUE]

Call(op, name, arg, str, int, ok) ==
  [op |-> op, name |-> name, arg |-> arg, str |-> str, int |-> int, ok |-> ok]

NoCalls ==
  [setup |-> 0, handle |-> 0, decode |-> 0, store |-> 0, dumps |-> 0,
   write |-> 0, set_status |-> 0]

(***************************************************************************)
(* The state after webapp has constructed the handlers.                    *)
(***************************************************************************)
\* One new handler for each of the requests inp gives.
Constructed(inp) ==
  /\ kind = [r \in DOMAIN inp |-> inp[r].kind]
  /\ request = [r \in DOMAIN inp |-> inp[r].request]
  /\ response = [r \in DOMAIN inp |-> NewResponse]
  /\ json_response = [r \in DOMAIN inp |-> EmptyDict]
  /\ wrapper = [r \in DOMAIN inp |-> NoWrapper]
  /\ pc = [r \in DOMAIN inp |-> "received"]
  /\ exc = [r \in DOMAIN inp |-> NoException]
  /\ thrown = [r \in DOMAIN inp |-> NoException]
  /\ last = [r \in DOMAIN inp |-> NoCall]
  /\ reads = [r \in DOMAIN inp |-> <<>>]
  /\ calls = [r \in DOMAIN inp |-> NoCalls]
  /\ log = [r \in DOMAIN inp |-> <<>>]
  /\ steps = [r \in DOMAIN inp |-> 0]

Init == \E inp \in [Instances -> Inputs] : Constructed(inp)

(***************************************************************************)
(* TaskQueueHandler.                                                       *)
(***************************************************************************)
\* httplib.SERVICE_UNAVAILABLE
SERVICE_UNAVAILABLE == 503

\* A check that takes any header of the task queue for the queue's name.
HasAnyTaskHeader(headers) ==
  DOMAIN headers \cap {QueueNameHeader, ExecutionCountHeader} # {}

\* "X-AppEngine-QueueName" in self.request.headers
HasQueueName(headers) == QueueNameHeader \in DOMAIN headers

\* self._setup(): nothing in TaskQueueHandler; HugeTaskHandler wraps the
\* request.
Setup(k, req) ==
  IF k = "HugeTaskHandler" THEN RequestWrapperInit(req)
  ELSE [ok |-> TRUE, decodes |-> 0, reads |-> 0, self |-> NoWrapper]

\* A post() that runs _setup() before it checks the queue header.
PostSetupFirst(r) ==
  /\ pc[r] = "received"
  /\ kind[r] \in TaskKinds
  /\ LET s == Setup(kind[r], request[r])
     IN  IF ~s.ok
         THEN /\ calls' = [calls EXCEPT
                             ![r].setup = @ + 1,
                             ![r].decode = @ + s.decodes,
                             ![r].store = @ + s.reads]
              /\ pc' = [pc EXCEPT ![r] = "raised"]
              /\ exc' = [exc EXCEPT ![r] = DecodeError]
              /\ UNCHANGED <<wrapper, response, log>>
         ELSE IF ~HasQueueName(request[r].headers)
              THEN /\ calls' = [calls EXCEPT
                                  ![r].setup = @ + 1,
                                  ![r].decode = @ + s.decodes,
                                  ![r].store = @ + s.reads]
                   /\ wrapper' = [wrapper EXCEPT ![r] = s.self]
                   /\ log' = [log EXCEPT ![r] =
                                @ \o << <<"error", "headers">>,
                                        <<"error", "non-task queue request">> >>]
                   /\ response' = [response EXCEPT ![r] = SetStatusOf(@, 403)]
                   /\ pc' = [pc EXCEPT ![r] = "done"]
                   /\ exc' = exc
              ELSE /\ calls' = [calls EXCEPT
                                  ![r].setup = @ + 1,
                                  ![r].decode = @ + s.decodes,
                                  ![r].store = @ + s.reads,
                                  ![r].handle = @ + 1]
                   /\ wrapper' = [wrapper EXCEPT ![r] = s.self]
                   /\ pc' = [pc EXCEPT ![r] = "handle"]
                   /\ UNCHANGED <<response, log, exc>>
  /\ UNCHANGED <<kind, request, json_response, thrown, last, reads, steps>>

\* post(): the check of the queue header, _setup() and the call of handle().
Post(r) ==
  /\ pc[r] = "received"
  /\ kind[r] \in TaskKinds
  /\ IF ~HasQueueName(request[r].headers)
     THEN /\ log' = [log EXCEPT ![r] =
                       @ \o << <<"error", "headers">>,
                               <<"error", "non-task queue request">> >>]
          /\ response' = [response EXCEPT ![r] = SetStatusOf(@, 403)]
          /\ pc' = [pc EXCEPT ![r] = "done"]
          /\ UNCHANGED <<wrapper, exc, calls>>
     ELSE LET s == Setup(kind[r], request[r])
          IN  /\ calls' = [calls EXCEPT
                             ![r].setup = @ + 1,
                             ![r].decode = @ + s.decodes,
                             ![r].store = @ + s.reads,
                             ![r].handle = IF s.ok THEN @ + 1 ELSE @]
              /\ wrapper' = [wrapper EXCEPT ![r] = IF s.ok THEN s.self ELSE @]
              /\ pc' = [pc EXCEPT ![r] = IF s.ok THEN "handle" ELSE "raised"]
              /\ exc' = [exc EXCEPT ![r] = IF s.ok THEN @ ELSE DecodeError]
              /\ UNCHANGED <<response, log>>
  /\ UNCHANGED <<kind, request, json_response, thrown, last, reads, steps>>

\* handle() is running and may make one more call.
InHandle(r, kinds) ==
  /\ pc[r] = "handle"
  /\ kind[r] \in kinds
  /\ steps[r] < MaxOps

\* self.request.headers: the wrapper's once _setup has wrapped the request.
RequestHeaders(w, req) == IF w.wrapped THEN w.headers ELSE req.headers

\* headers.get(...) without the default: int(None) raises when it is absent.
TaskRetryCountNoDefault(headers) ==
  IF ExecutionCountHeader \in DOMAIN headers
  THEN ParseInt(headers[ExecutionCountHeader])
  ELSE [ok |-> FALSE, val |-> 0]

\* A count that answers 0 for a value int() rejects.
TaskRetryCountLenient(headers) ==
  IF ExecutionCountHeader \in DOMAIN headers
     /\ ParseInt(headers[ExecutionCountHeader]).ok
  THEN ParseInt(headers[ExecutionCountHeader])
  ELSE [ok |-> TRUE, val |-> 0]

\* int(self.request.headers.get("X-AppEngine-TaskExecutionCount", 0)):
\* ok is FALSE when int() raises ValueError.
TaskRetryCountOf(headers) ==
  IF ExecutionCountHeader \in DOMAIN headers
  THEN ParseInt(headers[ExecutionCountHeader])
  ELSE [ok |-> TRUE, val |-> 0]

\* handle() calls self.task_retry_count(); a ValueError leaves handle().
TaskRetryCount(r) ==
  /\ InHandle(r, TaskKinds)
  /\ LET n == TaskRetryCountOf(RequestHeaders(wrapper[r], request[r]))
     IN  /\ last' = [last EXCEPT ![r] =
                       Call("task_retry_count", "", <<>>, <<>>,
                            IF n.ok THEN n.val ELSE 0, n.ok)]
         /\ pc' = [pc EXCEPT ![r] = IF n.ok THEN @ ELSE "raised"]
         /\ exc' = [exc EXCEPT ![r] = IF n.ok THEN @ ELSE ValueError]
         /\ thrown' = [thrown EXCEPT ![r] = IF n.ok THEN @ ELSE ValueError]
  /\ steps' = [steps EXCEPT ![r] = @ + 1]
  /\ UNCHANGED <<kind, request, response, json_response, wrapper, reads,
                 calls, log>>

\* handle() calls self.base_path().
BasePath(r) ==
  /\ InHandle(r, TaskKinds)
  /\ last' = [last EXCEPT ![r] =
               Call("base_path", "", <<>>,
                    BasePathOf(RequestPath(wrapper[r], request[r])), 0, TRUE)]
  /\ steps' = [steps EXCEPT ![r] = @ + 1]
  /\ UNCHANGED <<kind, request, response, json_response, wrapper, pc, exc,
                 thrown, reads, calls, log>>

\* retry_task() without response.clear().
RetryTaskNoClear(resp) == SetStatusOf(resp, SERVICE_UNAVAILABLE)

\* retry_task(): set_status(503, "Retry task"), then response.clear().
RetryTaskOf(resp) == ClearOf(SetStatusOf(resp, SERVICE_UNAVAILABLE))

\* handle() calls self.retry_task().
RetryTask(r) ==
  /\ InHandle(r, TaskKinds)
  /\ response' = [response EXCEPT ![r] = RetryTaskOf(@)]
  /\ last' = [last EXCEPT ![r] = Call("retry_task", "", <<>>, <<>>, 0, TRUE)]
  /\ steps' = [steps EXCEPT ![r] = @ + 1]
  /\ UNCHANGED <<kind, request, json_response, wrapper, pc, exc, thrown,
                 reads, calls, log>>

\* handle() calls self.response.out.write(text).
ResponseWrite(r, text) ==
  /\ InHandle(r, {"TaskQueueHandler"})
  /\ response' = [response EXCEPT ![r] = WriteOf(@, text)]
  /\ last' = [last EXCEPT ![r] = Call("write", "", text, <<>>, 0, TRUE)]
  /\ calls' = [calls EXCEPT ![r].write = @ + 1]
  /\ steps' = [steps EXCEPT ![r] = @ + 1]
  /\ UNCHANGED <<kind, request, json_response, wrapper, pc, exc, thrown,
                 reads, log>>

\* handle() calls self.response.set_status(code).
ResponseSetStatus(r, code) ==
  /\ InHandle(r, {"TaskQueueHandler"})
  /\ response' = [response EXCEPT ![r] = SetStatusOf(@, code)]
  /\ last' = [last EXCEPT ![r] = Call("set_status", "", <<>>, <<>>, code, TRUE)]
  /\ calls' = [calls EXCEPT ![r].set_status = @ + 1]
  /\ steps' = [steps EXCEPT ![r] = @ + 1]
  /\ UNCHANGED <<kind, request, json_response, wrapper, pc, exc, thrown,
                 reads, log>>

\* handle() returns to post(), which returns.
HandleReturn(r) ==
  /\ pc[r] = "handle"
  /\ kind[r] \in TaskKinds
  /\ pc' = [pc EXCEPT ![r] = "done"]
  /\ UNCHANGED <<kind, request, response, json_response, wrapper, exc, thrown,
                 last, reads, calls, log, steps>>

\* A post() that calls handle() again when it has raised.
HandleRaiseRetry(r, e) ==
  /\ pc[r] = "handle"
  /\ kind[r] \in TaskKinds
  /\ calls[r].handle < 3
  /\ calls' = [calls EXCEPT ![r].handle = @ + 1]
  /\ thrown' = [thrown EXCEPT ![r] = e]
  /\ UNCHANGED <<kind, request, response, json_response, wrapper, pc, exc,
                 last, reads, log, steps>>

\* A post() that catches what handle() raises and returns.
HandleRaiseSwallowed(r, e) ==
  /\ pc[r] = "handle"
  /\ kind[r] \in TaskKinds
  /\ pc' = [pc EXCEPT ![r] = "done"]
  /\ thrown' = [thrown EXCEPT ![r] = e]
  /\ UNCHANGED <<kind, request, response, json_response, wrapper, exc, last,
                 reads, calls, log, steps>>

\* handle() raises e: post() catches nothing.
HandleRaise(r, e) ==
  /\ pc[r] = "handle"
  /\ kind[r] \in TaskKinds
  /\ pc' = [pc EXCEPT ![r] = "raised"]
  /\ exc' = [exc EXCEPT ![r] = e]
  /\ thrown' = [thrown EXCEPT ![r] = e]
  /\ UNCHANGED <<kind, request, response, json_response, wrapper, last,
                 reads, calls, log, steps>>

(***************************************************************************)
(* HugeTaskHandler: the calls handle() makes on the wrapped request.       *)
(***************************************************************************)
\* handle() calls self.request.get(name, default), which calls
\* decode_payload the given number of times.
GetDecoding(r, name, default, decodes) ==
  /\ InHandle(r, {"HugeTaskHandler"})
  /\ LET v == WrapperGet(wrapper[r], request[r], name, default)
     IN  /\ last' = [last EXCEPT ![r] = Call("get", name, default, v, 0, TRUE)]
         /\ reads' = [reads EXCEPT ![r] = Append(@, <<name, default, v>>)]
  /\ calls' = [calls EXCEPT ![r].decode = @ + decodes]
  /\ steps' = [steps EXCEPT ![r] = @ + 1]
  /\ UNCHANGED <<kind, request, response, json_response, wrapper, pc, exc,
                 thrown, log>>

\* A get that decodes the payload again on every call.
GetLazy(r, name, default) ==
  GetDecoding(r, name, default, IF wrapper[r].encoded THEN 1 ELSE 0)

\* handle() calls self.request.get(name, default): __init__ has decoded the
\* payload, get decodes nothing.
Get(r, name, default) == GetDecoding(r, name, default, 0)

\* handle() calls self.request.set(name, value).
Set(r, name, value) ==
  /\ InHandle(r, {"HugeTaskHandler"})
  /\ LET s == WrapperSet(wrapper[r], request[r], name, value)
     IN  /\ wrapper' = [wrapper EXCEPT ![r] = s.self]
         /\ request' = [request EXCEPT ![r] = s.raw]
  /\ last' = [last EXCEPT ![r] = Call("set", name, value, <<>>, 0, TRUE)]
  /\ reads' = [reads EXCEPT ![r] = <<>>]
  /\ steps' = [steps EXCEPT ![r] = @ + 1]
  /\ UNCHANGED <<kind, response, json_response, pc, exc, thrown, calls, log>>

(***************************************************************************)
(* JsonHandler.                                                            *)
(***************************************************************************)
\* A check of the header's presence only.
LacksXhrHeader(headers) == RequestedWithHeader \notin DOMAIN headers

\* self.request.headers.get("X-Requested-With") != "XMLHttpRequest"
LacksXhrMarker(headers) ==
  \/ RequestedWithHeader \notin DOMAIN headers
  \/ headers[RequestedWithHeader] # <<"XMLHttpRequest">>

\* A _handle_wrapper() that rejects without logging.
HandleWrapperSilent(r) ==
  /\ pc[r] = "received"
  /\ IF LacksXhrMarker(request[r].headers)
     THEN /\ response' = [response EXCEPT ![r] = SetStatusOf(@, 403)]
          /\ pc' = [pc EXCEPT ![r] = "done"]
          /\ UNCHANGED <<json_response, calls, log>>
     ELSE /\ json_response' = [json_response EXCEPT ![r] = EmptyDict]
          /\ calls' = [calls EXCEPT ![r].handle = @ + 1]
          /\ pc' = [pc EXCEPT ![r] = "handle"]
          /\ UNCHANGED <<response, log>>
  /\ UNCHANGED <<kind, request, wrapper, exc, thrown, last, reads, steps>>

\* _handle_wrapper() up to the call of handle(): the check of the marker and
\* json_response.clear().
HandleWrapper(r) ==
  /\ pc[r] = "received"
  /\ IF LacksXhrMarker(request[r].headers)
     THEN /\ log' = [log EXCEPT ![r] =
                       Append(@, <<"error", "no X-Requested-With header">>)]
          /\ response' = [response EXCEPT ![r] = SetStatusOf(@, 403)]
          /\ pc' = [pc EXCEPT ![r] = "done"]
          /\ UNCHANGED <<json_response, calls>>
     ELSE /\ json_response' = [json_response EXCEPT ![r] = EmptyDict]
          /\ calls' = [calls EXCEPT ![r].handle = @ + 1]
          /\ pc' = [pc EXCEPT ![r] = "handle"]
          /\ UNCHANGED <<response, log>>
  /\ UNCHANGED <<kind, request, wrapper, exc, thrown, last, reads, steps>>

\* GetJsonHandler.get()
JsonGet(r) == kind[r] = "GetJsonHandler" /\ HandleWrapper(r)

\* PostJsonHandler.post()
JsonPost(r) == kind[r] = "PostJsonHandler" /\ HandleWrapper(r)

\* A json_response that is one dictionary of the class, shared by its
\* instances.
JsonPutShared(r, key, value) ==
  /\ InHandle(r, JsonKinds)
  /\ json_response' = [q \in DOMAIN json_response |->
                         IF kind[q] \in JsonKinds
                         THEN DictPut(json_response[q], key, value)
                         ELSE json_response[q]]
  /\ last' = [last EXCEPT ![r] = Call("put", key, <<>>, <<>>, 0, TRUE)]
  /\ steps' = [steps EXCEPT ![r] = @ + 1]
  /\ UNCHANGED <<kind, request, response, wrapper, pc, exc, thrown, reads,
                 calls, log>>

\* handle() puts a result in self.json_response.
JsonPut(r, key, value) ==
  /\ InHandle(r, JsonKinds)
  /\ json_response' = [json_response EXCEPT ![r] = DictPut(@, key, value)]
  /\ last' = [last EXCEPT ![r] = Call("put", key, <<>>, <<>>, 0, TRUE)]
  /\ steps' = [steps EXCEPT ![r] = @ + 1]
  /\ UNCHANGED <<kind, request, response, wrapper, pc, exc, thrown, reads,
                 calls, log>>

\* Whether one of the except clauses around handle() catches e.
Caught(e) == "MissingYamlError" \in e.isa \/ "Exception" \in e.isa

\* Except clauses that do not clear json_response before setting the fields.
EnvelopeNoClear(jr, e) ==
  IF e = NoException THEN jr
  ELSE IF "MissingYamlError" \in e.isa
       THEN DictPut(DictPut(jr, "error_class", "Notice"),
                    "error_message", "Could not find 'mapreduce.yaml'")
       ELSE DictPut(DictPut(jr, "error_class", e.cls), "error_message", e.str)

\* json_response after the try statement around handle(): as handle() left
\* it when e is NoException, the two error fields when e was caught.
Envelope(jr, e) ==
  IF e = NoException THEN jr
  ELSE IF "MissingYamlError" \in e.isa
       THEN DictPut(DictPut(EmptyDict, "error_class", "Notice"),
                    "error_message", "Could not find 'mapreduce.yaml'")
       ELSE DictPut(DictPut(EmptyDict, "error_class", e.cls),
                    "error_message", e.str)

\* What the try statement around handle() logs.
HandleLog(e) ==
  IF e = NoException THEN <<>>
  ELSE IF "MissingYamlError" \in e.isa
       THEN << <<"debug", "Could not find 'mapreduce.yaml' file.">> >>
       ELSE << <<"exception", "Error in JsonHandler">> >>

\* A failed serialization that still writes what it has.
RespondWritesOnFailure(resp, env) ==
  LET typed == [resp EXCEPT !.content_type = "text/javascript"]
  IN  IF Dumps(env).ok THEN WriteOf(typed, Dumps(env).out)
      ELSE WriteOf(SetStatusOf(typed, 500), <<"{">>)

\* A response that gets the Content-Type header only with the body.
RespondTypedOnSuccess(resp, env) ==
  IF Dumps(env).ok
  THEN WriteOf([resp EXCEPT !.content_type = "text/javascript"],
               Dumps(env).out)
  ELSE SetStatusOf(resp, 500)

\* The response after the Content-Type header is set and the envelope is
\* serialized: the body is written, or the status is set to 500.
Respond(resp, env) ==
  LET typed == [resp EXCEPT !.content_type = "text/javascript"]
  IN  IF Dumps(env).ok THEN WriteOf(typed, Dumps(env).out)
      ELSE SetStatusOf(typed, 500)

\* _handle_wrapper() from the end of handle() on; e is what handle() raised,
\* NoException when it returned, and call is the last call handle() made.
FinishCalling(r, e, call) ==
  /\ pc[r] = "handle"
  /\ kind[r] \in JsonKinds
  /\ last' = [last EXCEPT ![r] = call]
  /\ thrown' = [thrown EXCEPT ![r] = e]
  /\ IF e # NoException /\ ~Caught(e)
     THEN /\ pc' = [pc EXCEPT ![r] = "raised"]
          /\ exc' = [exc EXCEPT ![r] = e]
          /\ UNCHANGED <<json_response, response, calls, log>>
     ELSE LET env == Envelope(json_response[r], e)
          IN  /\ json_response' = [json_response EXCEPT ![r] = env]
              /\ response' = [response EXCEPT ![r] = Respond(@, env)]
              /\ calls' = [calls EXCEPT ![r].dumps = @ + 1]
              /\ log' = [log EXCEPT ![r] =
                           @ \o HandleLog(e)
                             \o (IF Dumps(env).ok THEN <<>>
                                 ELSE << <<"exception",
                                           "Could not serialize to JSON">> >>)]
              /\ pc' = [pc EXCEPT ![r] = "done"]
              /\ exc' = exc
  /\ UNCHANGED <<kind, request, wrapper, reads, steps>>

Finish(r, e) == FinishCalling(r, e, last[r])

\* handle() calls self.base_path(); a BadRequestPathError leaves handle().
JsonBasePath(r) ==
  /\ InHandle(r, JsonKinds)
  /\ LET b == JsonBasePathOf(RequestPath(wrapper[r], request[r]))
     IN  IF b.ok
         THEN /\ last' = [last EXCEPT ![r] =
                            Call("base_path", "", <<>>, b.val, 0, TRUE)]
              /\ steps' = [steps EXCEPT ![r] = @ + 1]
              /\ UNCHANGED <<kind, request, response, json_response,
                             wrapper, pc, exc, thrown, reads, calls, log>>
         ELSE FinishCalling(r, BadRequestPathError,
                            Call("base_path", "", <<>>, <<>>, 0, FALSE))

\* handle() returns.
JsonHandleReturn(r) == Finish(r, NoException)

\* handle() raises e.
JsonHandleRaise(r, e) == Finish(r, e)

(***************************************************************************)
(* The specification.                                                      *)
(***************************************************************************)
Next ==
  \/ \E r \in DOMAIN pc : Post(r)
  \/ \E r \in DOMAIN pc : TaskRetryCount(r)
  \/ \E r \in DOMAIN pc : RetryTask(r)
  \/ \E r \in DOMAIN pc : BasePath(r)
  \/ \E r \in DOMAIN pc, text \in Texts : ResponseWrite(r, text)
  \/ \E r \in DOMAIN pc, code \in StatusCodes : ResponseSetStatus(r, code)
  \/ \E r \in DOMAIN pc : HandleReturn(r)
  \/ \E r \in DOMAIN pc, e \in HandleExceptions : HandleRaise(r, e)
  \/ \E r \in DOMAIN pc, name \in ParamNames, default \in Defaults :
       Get(r, name, default)
  \/ \E r \in DOMAIN pc, name \in SetNames, value \in SetValues :
       Set(r, name, value)
  \/ \E r \in DOMAIN pc : JsonGet(r)
  \/ \E r \in DOMAIN pc : JsonPost(r)
  \/ \E r \in DOMAIN pc, key \in JsonPutKeys, value \in JsonPutValues :
       JsonPut(r, key, value)
  \/ \E r \in DOMAIN pc : JsonHandleReturn(r)
  \/ \E r \in DOMAIN pc, e \in HandleExceptions : JsonHandleRaise(r, e)
  \/ \E r \in DOMAIN pc : JsonBasePath(r)

Spec == Init /\ [][Next]_vars

(***************************************************************************)
(* Two requests handled at the same time, each by its own handler: the     *)
(* steps of the two interleave in any order.                               *)
(***************************************************************************)
ConcurrentInstances == {1, 2}

\* The requests that are handled together: commands with the marker, a task
\* with an inline payload and a task with flat parameters.
ConcurrentInputs ==
  {[kind |-> k,
    request |-> Request(RequestedWithHeader :> <<"XMLHttpRequest">>,
                        <<"/", "mapreduce", "/", "command", "/", "list_jobs">>,
                        EmptyDict)] : k \in JsonKinds}
  \cup
  {[kind |-> "HugeTaskHandler",
    request |-> Request(QueueNameHeader :> <<"default">>,
                        <<"/", "mapreduce", "/", "worker_callback">>, p)] :
     p \in {EncodePayload("a" :> <<"1">>), ("a" :> <<"raw_a">>)}}

\* What handle() of each of the two writes: the key it puts in
\* json_response and the name it sets on the request.
PutKeyOf(r) == IF r = 1 THEN "result" ELSE "name"

SetNameOf(r) == IF r = 1 THEN "c" ELSE "d"

InitConcurrent ==
  \E inp \in [ConcurrentInstances -> ConcurrentInputs] : Constructed(inp)

NextConcurrent ==
  \/ \E r \in DOMAIN pc : Post(r)
  \/ \E r \in DOMAIN pc : HandleReturn(r)
  \/ \E r \in DOMAIN pc : HandleRaise(r, ValueError)
  \/ \E r \in DOMAIN pc, name \in {"a", "c", "d"} : Get(r, name, <<>>)
  \/ \E r \in DOMAIN pc : Set(r, SetNameOf(r), <<"new">>)
  \/ \E r \in DOMAIN pc : JsonGet(r)
  \/ \E r \in DOMAIN pc : JsonPost(r)
  \/ \E r \in DOMAIN pc : JsonPut(r, PutKeyOf(r), "ok")
  \/ \E r \in DOMAIN pc : JsonHandleReturn(r)
  \/ \E r \in DOMAIN pc : JsonHandleRaise(r, ValueError)

SpecConcurrent == InitConcurrent /\ [][NextConcurrent]_vars

(***************************************************************************)
(* Properties.                                                             *)
(***************************************************************************)
\* The entry point of r has run up to handle() or to its end.
Entered(r) == pc[r] # "received"

LacksQueueName(r) == QueueNameHeader \notin DOMAIN request[r].headers

\* C1: a TaskQueueHandler request without the X-AppEngine-QueueName header
\* is answered 403 by post(), which ends without calling _setup() or handle().
C1_NoQueueNameRejected ==
  \A r \in DOMAIN pc :
    (kind[r] \in TaskKinds /\ LacksQueueName(r) /\ Entered(r))
      => /\ pc[r] = "done"
         /\ response[r].status = 403
         /\ calls[r].setup = 0
         /\ calls[r].handle = 0
         /\ steps[r] = 0

\* A request that has the retry count header but not the queue's was rejected.
C1_Witness ==
  \E r \in DOMAIN pc :
    /\ kind[r] \in TaskKinds
    /\ LacksQueueName(r)
    /\ ExecutionCountHeader \in DOMAIN request[r].headers
    /\ pc[r] = "done"
    /\ response[r].status = 403

\* C2: whatever status and body the response had, it has status 503 and an
\* empty body when retry_task() has returned.
C2_RetryTaskClears ==
  \A r \in DOMAIN pc :
    last[r].op = "retry_task"
      => response[r].status = 503 /\ response[r].body = <<>>

\* retry_task() was called after handle() wrote a body and set a status.
C2_Witness ==
  \E r \in DOMAIN pc :
    /\ last[r].op = "retry_task"
    /\ steps[r] = 3
    /\ calls[r].write = 1
    /\ calls[r].set_status = 1
    /\ response[r].status = 503

\* C3: task_retry_count() returns 0 when X-AppEngine-TaskExecutionCount is
\* absent and n when the header is the decimal string of n >= 0.
C3_RetryCountExact ==
  \A r \in DOMAIN pc :
    last[r].op = "task_retry_count"
      => /\ ExecutionCountHeader \notin DOMAIN request[r].headers
              => last[r].ok /\ last[r].int = 0
         /\ \A n \in 0..MaxCount :
              (/\ ExecutionCountHeader \in DOMAIN request[r].headers
               /\ request[r].headers[ExecutionCountHeader] = Dec(n))
                => last[r].ok /\ last[r].int = n

\* task_retry_count() returned a count of two digits.
C3_Witness ==
  \E r \in DOMAIN pc :
    /\ last[r].op = "task_retry_count"
    /\ ExecutionCountHeader \in DOMAIN request[r].headers
    /\ request[r].headers[ExecutionCountHeader] = <<"1", "0">>
    /\ last[r].int = 10

\* The retry count header of r holds what int() rejects.
UnparseableCount(r) ==
  /\ ExecutionCountHeader \in DOMAIN request[r].headers
  /\ ~ParseInt(request[r].headers[ExecutionCountHeader]).ok

\* C4 as stated: with a header that is no integer, task_retry_count()
\* returns 0 and does not raise.
C4_UnparseableIsZero ==
  \A r \in DOMAIN pc :
    (last[r].op = "task_retry_count" /\ UnparseableCount(r))
      => last[r].ok /\ last[r].int = 0

\* C4: with a header that is no integer, task_retry_count() raises
\* ValueError, which leaves handle() and post(); no count is returned.
C4_UnparseableRaises ==
  \A r \in DOMAIN pc :
    (last[r].op = "task_retry_count" /\ UnparseableCount(r))
      => /\ ~last[r].ok
         /\ pc[r] = "raised"
         /\ exc[r] = ValueError

\* task_retry_count() was called on a request whose header is "1x".
C4_Witness ==
  \E r \in DOMAIN pc :
    /\ last[r].op = "task_retry_count"
    /\ ExecutionCountHeader \in DOMAIN request[r].headers
    /\ request[r].headers[ExecutionCountHeader] = <<"1", "x">>
    /\ pc[r] = "raised"

LacksMarker(r) ==
  DictGet(request[r].headers, RequestedWithHeader, <<>>) # <<"XMLHttpRequest">>

\* C5: a JsonHandler request without X-Requested-With: XMLHttpRequest is
\* answered 403; handle() is not called, nothing is serialized and nothing
\* is written to the body.
C5_NoMarkerRejected ==
  \A r \in DOMAIN pc :
    (kind[r] \in JsonKinds /\ LacksMarker(r) /\ Entered(r))
      => /\ pc[r] = "done"
         /\ response[r].status = 403
         /\ response[r].body = <<>>
         /\ calls[r].handle = 0
         /\ calls[r].dumps = 0

\* A request whose X-Requested-With header names something else was rejected.
C5_Witness ==
  \E r \in DOMAIN pc :
    /\ kind[r] \in JsonKinds
    /\ RequestedWithHeader \in DOMAIN request[r].headers
    /\ LacksMarker(r)
    /\ pc[r] = "done"
    /\ response[r].status = 403

\* handle() of the JsonHandler r raised and _handle_wrapper() has ended.
HandleRaisedIn(r) ==
  /\ kind[r] \in JsonKinds
  /\ thrown[r] # NoException
  /\ pc[r] \in {"done", "raised"}

\* The body of r is one JSON text with exactly the keys error_class and
\* error_message, holding cls and msg.
EnvelopeIs(r, cls, msg) ==
  /\ Len(response[r].body) = 1
  /\ JsonKeysOf(response[r].body[1]) = {"error_class", "error_message"}
  /\ JsonValueOf(response[r].body[1], "error_class") = cls
  /\ JsonValueOf(response[r].body[1], "error_message") = msg

C7_SerializeFailureNoBody ==
  \A r \in DOMAIN pc :
    kind[r] \in JsonKinds
      => /\ calls[r].dumps >= 1
              => IF Dumps(json_response[r]).ok
                 THEN response[r].body = <<Dumps(json_response[r]).out>>
                 ELSE response[r].status = 500 /\ response[r].body = <<>>
         /\ response[r].body # <<>>
              => calls[r].dumps = 1 /\ Dumps(json_response[r]).ok

\* handle() returned with a value in json_response that cannot be
\* serialized, beside one that can.
C7_Witness ==
  \E r \in DOMAIN pc :
    /\ kind[r] \in JsonKinds
    /\ thrown[r] = NoException
    /\ calls[r].dumps = 1
    /\ DOMAIN json_response[r] = {"result", "name"}
    /\ json_response[r]["result"] = "ok"
    /\ json_response[r]["name"] = Opaque
    /\ response[r].status = 500
    /\ response[r].body = <<>>

\* post() of the HugeTaskHandler r has wrapped the request.
Wrapped(r) == kind[r] = "HugeTaskHandler" /\ wrapper[r].wrapped

\* The raw request of r has neither a payload nor a payload_key.
Flat(r) ==
  /\ DictGet(request[r].params, PAYLOAD_PARAM, <<>>) = <<>>
  /\ DictGet(request[r].params, PAYLOAD_KEY_PARAM, <<>>) = <<>>

\* C8: when payload and payload_key are both absent or empty, the wrapped
\* request is a passthrough view: nothing is decoded, get(name, default)
\* returns what the raw request's get(name, default) returns, and
\* set(name, value) is applied to the raw request.
C8_PassthroughView ==
  \A r \in DOMAIN pc :
    (kind[r] = "HugeTaskHandler" /\ Flat(r) /\ ~LacksQueueName(r) /\ Entered(r))
      => /\ wrapper[r].wrapped
         /\ ~wrapper[r].encoded
         /\ wrapper[r].params = EmptyDict
         /\ calls[r].decode = 0
         /\ calls[r].store = 0
         /\ last[r].op = "get"
              => last[r].str
                   = DictGet(request[r].params, last[r].name, last[r].arg)
         /\ last[r].op = "set"
              => /\ last[r].name \in DOMAIN request[r].params
                 /\ request[r].params[last[r].name] = last[r].arg

\* On a flat request, after a set of a new name, a get of a name the raw
\* request lacks returned the default given.
C8_Witness ==
  \E r \in DOMAIN pc :
    /\ Wrapped(r)
    /\ Flat(r)
    /\ "d" \in DOMAIN request[r].params
    /\ last[r].op = "get"
    /\ last[r].name \notin DOMAIN request[r].params
    /\ last[r].arg = <<"dflt">>
    /\ last[r].str = <<"dflt">>

\* C9: on a request with an envelope, get() and set() of the wrapped request
\* go to the decoded mapping: get() returns the mapping's value, or the
\* default for a name the mapping lacks, whatever the raw request holds under
\* that name; set() changes the mapping and never the raw request.
C9_EncodedViewOnly ==
  /\ [](\A r \in DOMAIN pc :
          (Wrapped(r) /\ ~Flat(r))
            => /\ wrapper[r].encoded
               /\ last[r].op = "get"
                    => last[r].str
                         = IF last[r].name \in DOMAIN wrapper[r].params
                           THEN wrapper[r].params[last[r].name]
                           ELSE last[r].arg
               /\ last[r].op = "set"
                    => /\ last[r].name \in DOMAIN wrapper[r].params
                       /\ wrapper[r].params[last[r].name] = last[r].arg)
  /\ [][\A r \in DOMAIN pc :
          (Wrapped(r) /\ ~Flat(r)) => request'[r] = request[r]]_vars

\* After a set of a new name, a get of a name the raw request holds and the
\* decoded mapping lacks returned the default, not the raw value.
C9_Witness ==
  \E r \in DOMAIN pc :
    /\ Wrapped(r)
    /\ ~Flat(r)
    /\ "d" \in DOMAIN wrapper[r].params
    /\ "d" \notin DOMAIN request[r].params
    /\ last[r].op = "get"
    /\ last[r].name \in DOMAIN request[r].params
    /\ last[r].name \notin DOMAIN wrapper[r].params
    /\ last[r].str = last[r].arg
    /\ request[r].params[last[r].name] # last[r].arg

\* C10: decode_payload is called, and the auxiliary store read, at most once
\* in a request, however many get() and set() calls handle() makes; get()
\* calls with the same name and default and no set() between them return
\* the same result.
C10_DecodeOnce ==
  \A r \in DOMAIN pc :
    /\ calls[r].decode <= 1
    /\ calls[r].store <= 1
    /\ calls[r].setup <= 1
    /\ \A i, j \in 1..Len(reads[r]) :
         (reads[r][i][1] = reads[r][j][1] /\ reads[r][i][2] = reads[r][j][2])
           => reads[r][i][3] = reads[r][j][3]

\* The payload came from the store and the same get() was made three times.
C10_Witness ==
  \E r \in DOMAIN pc :
    /\ Wrapped(r)
    /\ wrapper[r].encoded
    /\ calls[r].decode = 1
    /\ calls[r].store = 1
    /\ Len(reads[r]) = 3
    /\ reads[r][1] = reads[r][2]
    /\ reads[r][2] = reads[r][3]

\* The raw request of r has a payload or a payload_key that decode_payload
\* rejects: the blob is corrupt or the store has nothing under the key.
Undecodable(r) ==
  /\ ~NoEnvelope(request[r])
  /\ ~DecodePayload(RawGet(request[r], PAYLOAD_PARAM, <<>>),
                    RawGet(request[r], PAYLOAD_KEY_PARAM, <<>>)).ok

\* C11: when decoding the payload of a HugeTaskHandler request fails, the
\* failure leaves post() and handle() is never called; handle() runs only
\* on a request that decoded in full or on a passthrough view.
C11_DecodeFailurePropagates ==
  \A r \in DOMAIN pc :
    (kind[r] = "HugeTaskHandler" /\ ~LacksQueueName(r) /\ Entered(r))
      => IF Undecodable(r)
         THEN /\ pc[r] = "raised"
              /\ exc[r] = DecodeError
              /\ calls[r].handle = 0
              /\ steps[r] = 0
              /\ ~wrapper[r].wrapped
              /\ response[r] = NewResponse
         ELSE /\ calls[r].handle = 1
              /\ wrapper[r].wrapped
              /\ wrapper[r].encoded = ~NoEnvelope(request[r])
              /\ (wrapper[r].encoded /\ steps[r] = 0)
                   => wrapper[r].params =
                        DecodePayload(
                          RawGet(request[r], PAYLOAD_PARAM, <<>>),
                          RawGet(request[r], PAYLOAD_KEY_PARAM, <<>>)).params

\* post() was left by the failure to decode a corrupt inline payload.
C11_Witness ==
  \E r \in DOMAIN pc :
    /\ kind[r] = "HugeTaskHandler"
    /\ RawGet(request[r], PAYLOAD_PARAM, <<>>) # <<>>
    /\ Undecodable(r)
    /\ pc[r] = "raised"
    /\ calls[r].setup = 1

\* C12: a request that carries the encoding of a mapping, inline when the
\* blob is within the ceiling and by the key of the stored blob otherwise,
\* is wrapped into a view that decodes to the mapping: get(name) returns the
\* mapping's value for each of its names and the default for any other.
C12_RoundTrip ==
  \A r \in DOMAIN pc : \A m \in Mappings :
    (Wrapped(r) /\ request[r].params = EncodePayload(m))
      => /\ wrapper[r].encoded
         /\ steps[r] = 0 => wrapper[r].params = m
         /\ (last[r].op = "get" /\ Len(reads[r]) = steps[r])
              => last[r].str = IF last[r].name \in DOMAIN m
                               THEN m[last[r].name]
                               ELSE last[r].arg

\* Three gets on the view of a mapping that was stored under a key: a name
\* it has, and a name it lacks.
C12_Witness ==
  \E r \in DOMAIN pc :
    /\ Wrapped(r)
    /\ request[r].params = EncodePayload(Stored["k2"])
    /\ PAYLOAD_KEY_PARAM \in DOMAIN request[r].params
    /\ Len(reads[r]) = 3
    /\ reads[r][1] = <<"payload", <<"dflt">>, <<"p">> >>
    /\ reads[r][2] = <<"b", <<"dflt">>, <<"dflt">> >>
    /\ reads[r][3] = <<"a", <<>>, <<"1">> >>


\* C13: post() of a request that has the queue header calls _setup() once
\* and then handle() once, handle() never without _setup() before it; and
\* neither post() nor _handle_wrapper() calls handle() a second time, not
\* even when it has failed: once the entry point is left nothing is called.
C13_SetupThenHandleOnce ==
  /\ [](\A r \in DOMAIN pc :
          /\ calls[r].setup <= 1
          /\ calls[r].handle <= 1
          /\ (kind[r] \in TaskKinds /\ ~LacksQueueName(r) /\ Entered(r))
               => calls[r].setup = 1
          /\ (kind[r] \in TaskKinds /\ calls[r].handle = 1)
               => calls[r].setup = 1
          /\ (kind[r] = "HugeTaskHandler" /\ calls[r].handle = 1)
               => wrapper[r].wrapped
          /\ kind[r] \in JsonKinds => calls[r].setup = 0)
  /\ [][\A r \in DOMAIN pc :
          /\ calls'[r].handle # calls[r].handle
               => /\ pc[r] = "received"
                  /\ calls[r].handle = 0
                  /\ calls'[r].handle = 1
          /\ calls'[r].setup # calls[r].setup => pc[r] = "received"
          /\ pc[r] \in {"done", "raised"}
               => pc'[r] = pc[r] /\ calls'[r] = calls[r]]_vars

\* handle() made a call and then raised; it had been called once, after
\* the one call of _setup().
C13_Witness ==
  \E r \in DOMAIN pc :
    /\ kind[r] = "HugeTaskHandler"
    /\ thrown[r] = ValueError
    /\ pc[r] = "raised"
    /\ steps[r] >= 1
    /\ calls[r].setup = 1
    /\ calls[r].handle = 1

\* The status webapp answers with: 500 when an exception has left the entry
\* point, the status of the handler's response otherwise.
AnsweredStatus(r) == IF pc[r] = "raised" THEN 500 ELSE response[r].status

\* C14: what handle() raises in a TaskQueueHandler, NotImplementedError
\* included, leaves post() as it is: post() does not return, touches neither
\* the response nor the log and builds no envelope, and the request is
\* answered with a status outside 200..299.
C14_HandleFailurePropagates ==
  /\ [](\A r \in DOMAIN pc :
          (kind[r] \in TaskKinds /\ thrown[r] # NoException)
            => /\ pc[r] = "raised"
               /\ exc[r] = thrown[r]
               /\ AnsweredStatus(r) \notin 200..299
               /\ json_response[r] = EmptyDict
               /\ response[r].content_type = ""
               /\ calls[r].dumps = 0)
  /\ [][\A r \in DOMAIN pc :
          (kind[r] \in TaskKinds /\ pc[r] = "handle" /\ pc'[r] = "raised")
            => /\ response'[r] = response[r]
               /\ log'[r] = log[r]
               /\ thrown'[r] # NoException]_vars

\* handle() of the base class raised NotImplementedError at once.
C14_Witness ==
  \E r \in DOMAIN pc :
    /\ kind[r] = "TaskQueueHandler"
    /\ thrown[r] = NotImplemented
    /\ steps[r] = 0
    /\ pc[r] = "raised"
    /\ response[r].status = 200


\* b is path without its last segment and the "/" before it.
TrimmedOnce(path, b) ==
  /\ Len(b) < Len(path)
  /\ SubSeq(path, 1, Len(b)) = b
  /\ path[Len(b) + 1] = "/"
  /\ \A i \in (Len(b) + 2)..Len(path) : path[i] # "/"

\* The segment before the last segment of path is "command".
UnderCommand(path) ==
  \E n \in 2..Len(path) :
    /\ TrimmedOnce(path, SubSeq(path, 1, n))
    /\ path[n] = "command"
    /\ path[n - 1] = "/"

\* b is path without its last two segments.
TrimmedTwice(path, b) ==
  \E n \in 0..Len(path) :
    /\ TrimmedOnce(path, SubSeq(path, 1, n))
    /\ TrimmedOnce(SubSeq(path, 1, n), b)

\* C15 as stated: BaseHandler.base_path() returns the path without its last
\* segment; JsonHandler.base_path() returns the path without its last two
\* segments when the one before the last is "command" and raises
\* BadRequestPathError otherwise, and the error is fatal for the request: it
\* leaves the entry point instead of being absorbed.
C15_BadPathFatal ==
  \A r \in DOMAIN pc :
    last[r].op = "base_path"
      => IF kind[r] \in TaskKinds
         THEN last[r].ok /\ TrimmedOnce(request[r].path, last[r].str)
         ELSE IF UnderCommand(request[r].path)
              THEN last[r].ok /\ TrimmedTwice(request[r].path, last[r].str)
              ELSE /\ ~last[r].ok
                   /\ pc[r] = "raised"
                   /\ exc[r] = BadRequestPathError

\* C15: BaseHandler.base_path() returns the path without its last segment;
\* JsonHandler.base_path() returns the path without its last two segments
\* when the one before the last is "command" and raises BadRequestPathError
\* otherwise; raised in handle(), the error is caught by _handle_wrapper()
\* as any Exception is: the answer is 200 with the envelope that names it.
C15_BadPathEnveloped ==
  \A r \in DOMAIN pc :
    last[r].op = "base_path"
      => IF kind[r] \in TaskKinds
         THEN last[r].ok /\ TrimmedOnce(request[r].path, last[r].str)
         ELSE IF UnderCommand(request[r].path)
              THEN last[r].ok /\ TrimmedTwice(request[r].path, last[r].str)
              ELSE /\ ~last[r].ok
                   /\ thrown[r] = BadRequestPathError
                   /\ pc[r] = "done"
                   /\ exc[r] = NoException
                   /\ response[r].status = 200
                   /\ EnvelopeIs(r, "BadRequestPathError",
                                 BadRequestPathError.str)

\* base_path() raised in handle() for a path that is not under /command,
\* after handle() had put a result in json_response.
C15_Witness ==
  \E r \in DOMAIN pc :
    /\ kind[r] \in JsonKinds
    /\ request[r].path = <<"/", "mapreduce", "/", "list_jobs">>
    /\ last[r].op = "base_path"
    /\ ~last[r].ok
    /\ steps[r] >= 1
    /\ pc[r] = "done"


\* The answer of the JsonHandler r carries Content-Type: text/javascript.
Typed(r) == response[r].content_type = "text/javascript"

\* C16 as stated: Content-Type is set to text/javascript together with the
\* writing of the body: an answer of 500 after a failed serialization, or of
\* 403 for a missing marker, does not carry it.
C16_TypedOnlyWithBody ==
  \A r \in DOMAIN pc :
    kind[r] \in JsonKinds
      => /\ response[r].body # <<>> => Typed(r)
         /\ response[r].status \in {403, 500} => ~Typed(r)

\* C16: Content-Type is set to text/javascript before the serialization is
\* tried: the answer carries it when the body was written and also when the
\* serialization failed and the status is 500; it does not carry it when
\* the marker was missing (403) or when an exception left _handle_wrapper().
C16_TypedBeforeSerializing ==
  \A r \in DOMAIN pc :
    kind[r] \in JsonKinds
      => /\ Typed(r) <=> calls[r].dumps = 1
         /\ response[r].body # <<>> => Typed(r)
         /\ response[r].status = 500 => Typed(r) /\ response[r].body = <<>>
         /\ response[r].status = 403 => ~Typed(r)
         /\ pc[r] = "raised" => ~Typed(r)

\* handle() returned with a value that cannot be serialized: the answer is
\* 500, without a body, and carries the header.
C16_Witness ==
  \E r \in DOMAIN pc :
    /\ kind[r] \in JsonKinds
    /\ thrown[r] = NoException
    /\ ~Dumps(json_response[r]).ok
    /\ response[r].status = 500
    /\ Typed(r)

\* The severities of the entries r has logged.
Severities(r) == {log[r][i][1] : i \in 1..Len(log[r])}

\* C18 as stated: a rejection for a missing queue header is logged at error
\* severity; a rejection for a missing marker logs nothing at error severity.
C18_UiRejectionSilent ==
  \A r \in DOMAIN pc :
    /\ (kind[r] \in TaskKinds /\ LacksQueueName(r) /\ Entered(r))
         => "error" \in Severities(r)
    /\ (kind[r] \in JsonKinds /\ LacksMarker(r) /\ Entered(r))
         => "error" \notin Severities(r)

\* C18: both rejections are logged at error severity: post() logs the
\* headers and a message, _handle_wrapper() logs one message.
C18_RejectionsLogged ==
  \A r \in DOMAIN pc :
    /\ (kind[r] \in TaskKinds /\ LacksQueueName(r) /\ Entered(r))
         => log[r] = << <<"error", "headers">>,
                        <<"error", "non-task queue request">> >>
    /\ (kind[r] \in JsonKinds /\ LacksMarker(r) /\ Entered(r))
         => log[r] = << <<"error", "no X-Requested-With header">> >>

\* A request without the marker was rejected and the rejection logged.
C18_Witness ==
  \E r \in DOMAIN pc :
    /\ kind[r] = "PostJsonHandler"
    /\ RequestedWithHeader \notin DOMAIN request[r].headers
    /\ response[r].status = 403
    /\ Len(log[r]) = 1
    /\ log[r][1][1] = "error"

\* C19: a HugeTaskHandler request without the queue header is not decoded:
\* post() rejects it before _setup(), so the request is never wrapped,
\* decode_payload is never called and the auxiliary store is never read.
C19_RejectedNotDecoded ==
  \A r \in DOMAIN pc :
    (kind[r] = "HugeTaskHandler" /\ LacksQueueName(r))
      => /\ wrapper[r] = NoWrapper
         /\ calls[r].setup = 0
         /\ calls[r].decode = 0
         /\ calls[r].store = 0
         /\ pc[r] \in {"received", "done"}

\* A request that names a stored payload and lacks the queue header was
\* rejected.
C19_Witness ==
  \E r \in DOMAIN pc :
    /\ kind[r] = "HugeTaskHandler"
    /\ LacksQueueName(r)
    /\ RawGet(request[r], PAYLOAD_KEY_PARAM, <<>>) = <<"k1">>
    /\ pc[r] = "done"
    /\ response[r].status = 403

\* C20: the wrapper has the path and the headers of the request it wraps:
\* task_retry_count() and base_path(), called from handle() after
\* _setup(), return what they return on the unwrapped request, whether the
\* wrapper is encoded or passthrough.
C20_WrapperKeepsPathAndHeaders ==
  \A r \in DOMAIN pc :
    Wrapped(r)
      => /\ wrapper[r].path = request[r].path
         /\ wrapper[r].headers = request[r].headers
         /\ last[r].op = "task_retry_count"
              => /\ last[r].ok = TaskRetryCountOf(request[r].headers).ok
                 /\ last[r].ok
                      => last[r].int = TaskRetryCountOf(request[r].headers).val
         /\ last[r].op = "base_path"
              => last[r].ok /\ last[r].str = BasePathOf(request[r].path)

\* On an encoded wrapper, task_retry_count() returned the 2 of the header
\* after base_path() had been called.
C20_Witness ==
  \E r \in DOMAIN pc :
    /\ Wrapped(r)
    /\ wrapper[r].encoded
    /\ steps[r] >= 2
    /\ last[r].op = "task_retry_count"
    /\ last[r].int = 2


\* Nothing of the handler q changes in the step.
Untouched(q) ==
  /\ kind'[q] = kind[q]
  /\ request'[q] = request[q]
  /\ response'[q] = response[q]
  /\ json_response'[q] = json_response[q]
  /\ wrapper'[q] = wrapper[q]
  /\ pc'[q] = pc[q]
  /\ exc'[q] = exc[q]
  /\ thrown'[q] = thrown[q]
  /\ last'[q] = last[q]
  /\ reads'[q] = reads[q]
  /\ calls'[q] = calls[q]
  /\ log'[q] = log[q]
  /\ steps'[q] = steps[q]

\* The names handler r can hold: those of its request and the one it sets.
OwnNames(r) == {"a", PAYLOAD_PARAM, SetNameOf(r)}

\* C17: when two requests are handled at the same time, each by its own
\* handler, every step changes the state of one handler only, so each
\* handler goes through what it goes through alone; the envelope and the
\* body of a handler hold only the keys it put itself, the body is the
\* serialization of its own envelope, and its parameters hold only the
\* names of its own request and the name it set itself.
C17_RequestsIsolated ==
  /\ [][\E r \in DOMAIN pc : \A q \in DOMAIN pc \ {r} : Untouched(q)]_vars
  /\ [](\A r \in DOMAIN pc :
          /\ DOMAIN json_response[r]
               \subseteq {PutKeyOf(r), "error_class", "error_message"}
          /\ response[r].body # <<>>
               => /\ response[r].body = <<Dumps(json_response[r]).out>>
                  /\ JsonKeysOf(response[r].body[1]) = DOMAIN json_response[r]
          /\ DOMAIN wrapper[r].params \subseteq OwnNames(r)
          /\ DOMAIN request[r].params \subseteq OwnNames(r)
          /\ \A i \in 1..Len(reads[r]) :
               reads[r][i][3] \in {<<>>, <<"1">>, <<"raw_a">>, <<"new">>}
                 /\ (reads[r][i][3] = <<"new">>
                       => reads[r][i][1] = SetNameOf(r)))

\* Both handlers are command handlers and have answered: each body holds
\* the key its own handle() put and not the other's.
C17_Witness ==
  /\ DOMAIN pc = ConcurrentInstances
  /\ \A r \in DOMAIN pc :
       /\ kind[r] \in JsonKinds
       /\ pc[r] = "done"
       /\ response[r].status = 200
       /\ Len(response[r].body) = 1
       /\ JsonKeysOf(response[r].body[1]) = {PutKeyOf(r)}

=============================================================================
